---- MODULE Spec2Model ----
(***************************************************************************)
(* Model of the Autovisory chat handler (autovisory-demo-app.py): the      *)
(* intent classifier determine_next_action, the entity extractor           *)
(* extract_car_models, the three executors and the dispatch block of the   *)
(* chat_input handler, with st.session_state.messages as the log.          *)
(*                                                                         *)
(* Python values are modelled as tagged records: [k |-> "str", s |-> ..],  *)
(* [k |-> "int", n |-> ..], [k |-> "null"], [k |-> "list", items |-> ..],  *)
(* [k |-> "obj", ...] and [k |-> "absent"] for a key a dict does not have. *)
(***************************************************************************)
EXTENDS Integers, Sequences, FiniteSets, TLC

(* ------------------------------ bounds --------------------------------- *)

\* number of user turns explored in one session
MaxTurns == 1

(* --------------------------- Python values ----------------------------- *)

Absent == [k |-> "absent"]
JNull == [k |-> "null"]
JStr(t) == [k |-> "str", s |-> t]
JInt(i) == [k |-> "int", n |-> i]
JList(q) == [k |-> "list", items |-> q]

\* dict.get(key, default) on a field already looked up
Get(field, default) == IF field = Absent THEN default ELSE field

\* dict.get(key): None when the key is missing
GetNone(field) == Get(field, JNull)

\* bool(value)
Truthy(v) ==
  CASE v.k = "str" -> v.s # ""
    [] v.k = "int" -> v.n # 0
    [] v.k = "list" -> Len(v.items) > 0
    [] v.k = "obj" -> TRUE
    [] OTHER -> FALSE

RECURSIVE Group3(_)
\* the digits of n >= 0 with a comma between groups of three
Group3(n) ==
  IF n < 1000 THEN ToString(n)
  ELSE LET r == n % 1000
           pad == IF r < 10 THEN "00" ELSE IF r < 100 THEN "0" ELSE ""
       IN Group3(n \div 1000) \o "," \o pad \o ToString(r)

\* format(n, ",")
FormatComma(n) == IF n < 0 THEN "-" \o Group3(0 - n) ELSE Group3(n)

\* str(value) as an f-string interpolates it (scalars only)
PyStr(v) ==
  CASE v.k = "str" -> v.s
    [] v.k = "int" -> IF v.n < 0 THEN "-" \o ToString(0 - v.n) ELSE ToString(v.n)
    [] v.k = "null" -> "None"

(* ------------------------------ texts ---------------------------------- *)

UpperChars ==
  {"A","B","C","D","E","F","G","H","I","J","K","L","M",
   "N","O","P","Q","R","S","T","U","V","W","X","Y","Z"}
LowerChars ==
  {"a","b","c","d","e","f","g","h","i","j","k","l","m",
   "n","o","p","q","r","s","t","u","v","w","x","y","z"}
DigitChars == {"0","1","2","3","4","5","6","7","8","9"}

ModelChars == UpperChars \cup LowerChars \cup DigitChars \cup {"-"}
WordChars == UpperChars \cup LowerChars \cup DigitChars \cup {"_"}
SpaceChars == {" ", "\t", "\n"}

\* [A-Z]
IsUpper(c) == c \in UpperChars
\* [a-zA-Z0-9-]
IsModelChar(c) == c \in ModelChars
\* \w
IsWordChar(c) == c \in WordChars
\* \s
IsSpace(c) == c \in SpaceChars

RECURSIVE Join(_)
\* "".join(chars)
Join(cs) == IF cs = <<>> THEN "" ELSE Head(cs) \o Join(Tail(cs))

RECURSIVE Strip(_)
\* str.strip() on a sequence of characters
Strip(cs) ==
  IF cs = <<>> THEN cs
  ELSE IF IsSpace(cs[1]) THEN Strip(Tail(cs))
  ELSE IF IsSpace(cs[Len(cs)]) THEN Strip(SubSeq(cs, 1, Len(cs) - 1))
  ELSE cs

SetMax(S) == CHOOSE m \in S : \A o \in S : o <= m

(* ------------------------- extract_car_models -------------------------- *)
\* Positions are 1-based; a match "ends" at the index of the first
\* character after it.  NoMatch (0) is never a valid end.

NoMatch == 0

\* \b at position i of s
WordBoundary(s, i) ==
  LET before == i > 1 /\ IsWordChar(s[i - 1])
      after == i <= Len(s) /\ IsWordChar(s[i])
  IN before # after

\* the ends of [A-Z][a-zA-Z0-9-]+ started at i
WordEnds(s, i) ==
  IF i < 1 \/ i > Len(s) THEN {}
  ELSE IF ~IsUpper(s[i]) THEN {}
  ELSE {e \in (i + 2)..(Len(s) + 1) : \A j \in (i + 1)..(e - 1) : IsModelChar(s[j])}

\* the longest of the ends, which a greedy quantifier tries first
Longest(ends) == IF ends = {} THEN NoMatch ELSE SetMax(ends)

\* the first of two attempts that matched
OrElse(a, b) == IF a # NoMatch THEN a ELSE b

\* -? after a word that ends at e
AfterHyphen(s, e) == IF e <= Len(s) /\ s[e] = "-" THEN e + 1 ELSE e

RECURSIVE RepeatEnd(_, _)
\* (?:[A-Z][a-zA-Z0-9-]+-?)+ with its first word ended at e: the optional
\* hyphen if it is there, then another repetition if one matches
RepeatFrom(s, e) ==
  IF e = NoMatch THEN NoMatch
  ELSE OrElse(RepeatEnd(s, AfterHyphen(s, e)), AfterHyphen(s, e))

\* (?:[A-Z][a-zA-Z0-9-]+-?)+ started at q, greedy: the longest word first
RepeatEnd(s, q) == RepeatFrom(s, Longest(WordEnds(s, q)))

\* the end of the rest of an alternative, which starts after the \s at e
AfterSpace(e, rest) == IF e = NoMatch THEN NoMatch ELSE rest

\* the ends of a first word at i that \s and a repetition can follow
WordSpaceRepeat(s, i) ==
  {e \in WordEnds(s, i) : e <= Len(s) /\ IsSpace(s[e]) /\ RepeatEnd(s, e + 1) # NoMatch}

\* first alternative: word, \s, repetition
Alt1End(s, i) ==
  AfterSpace(Longest(WordSpaceRepeat(s, i)),
             RepeatEnd(s, Longest(WordSpaceRepeat(s, i)) + 1))

\* one word at q, the longest
OneWordEnd(s, q) == Longest(WordEnds(s, q))

\* the ends of a first word at i that \s and a word can follow
WordSpaceWord(s, i) ==
  {e \in WordEnds(s, i) : e <= Len(s) /\ IsSpace(s[e]) /\ OneWordEnd(s, e + 1) # NoMatch}

\* second alternative: word, \s, word
Alt2End(s, i) ==
  AfterSpace(Longest(WordSpaceWord(s, i)),
             OneWordEnd(s, Longest(WordSpaceWord(s, i)) + 1))

\* third alternative: one word
Alt3End(s, i) == OneWordEnd(s, i)

\* the capture group at i: the first alternative that matches
GroupEnd(s, i) == OrElse(Alt1End(s, i), OrElse(Alt2End(s, i), Alt3End(s, i)))

Connectors ==
  << <<"v","s">>, <<"v","e","r","s","u","s">>, <<"c","o","m","p","a","r","e">>,
     <<"b","e","t","w","e","e","n">>, <<"a","n","d">> >>

\* \b<connector c>\b\s at i
ConnectorAt(s, i, c) ==
  /\ i + Len(c) <= Len(s)
  /\ SubSeq(s, i, i + Len(c) - 1) = c
  /\ WordBoundary(s, i)
  /\ WordBoundary(s, i + Len(c))
  /\ IsSpace(s[i + Len(c)])

\* the index after the first connector of ks, in the alternation's order
AfterFirst(i, ks) ==
  IF ks = {} THEN NoMatch
  ELSE i + Len(Connectors[CHOOSE n \in ks : \A o \in ks : n <= o]) + 1

\* \b(?:vs|versus|compare|between|and)\b\s at i: the index after it
PrefixEnd(s, i) ==
  AfterFirst(i, {n \in 1..Len(Connectors) : ConnectorAt(s, i, Connectors[n])})

\* <<start of group, end of group>>, or <<>> when the group did not match
Span(start, end) == IF end = NoMatch THEN <<>> ELSE <<start, end>>

\* the pattern at i with the prefix ended at p (NoMatch: no prefix there)
WithPrefix(s, p) == IF p = NoMatch THEN <<>> ELSE Span(p, GroupEnd(s, p))

\* the first of two attempts that gave a span
SpanOrElse(a, b) == IF a # <<>> THEN a ELSE b

\* the pattern at i: the optional prefix is tried first, and given up if the
\* group fails after it
MatchAt(s, i) == SpanOrElse(WithPrefix(s, PrefixEnd(s, i)), Span(i, GroupEnd(s, i)))

RECURSIVE FindAll(_, _)
\* re.findall continued after the attempt m at i
FindNext(s, i, m) ==
  IF m = <<>> THEN FindAll(s, i + 1)
  ELSE <<SubSeq(s, m[1], m[2] - 1)>> \o FindAll(s, m[2])

\* re.findall(pattern, text): the groups of the non-overlapping matches
FindAll(s, i) == IF i > Len(s) THEN <<>> ELSE FindNext(s, i, MatchAt(s, i))

stop_words ==
  { <<"C","o","m","p","a","r","e">>, <<"B","e","t","w","e","e","n">>,
    <<"A","n","d">>, <<"T","h","e">>, <<"A">> }

\* [model.strip() for model in models if model.strip() not in stop_words]
Candidates(models) ==
  LET keep == SelectSeq(models, LAMBDA m : Strip(m) \notin stop_words)
  IN [n \in 1..Len(keep) |-> Join(Strip(keep[n]))]

extract_car_models(text) == Candidates(FindAll(text, 1))

(* ----------------------------- utterances ------------------------------ *)

Utterances ==
  { <<"h","i">>,
    <<"T","e","l","l"," ","m","e"," ","a","b","o","u","t"," ","t","h","e"," ",
      "F","o","r","d"," ","F","-","1","5","0">>,
    <<"C","o","m","p","a","r","e"," ","H","o","n","d","a"," ","C","i","v","i","c",
      " ","v","s"," ","T","o","y","o","t","a"," ","C","o","r","o","l","l","a">>,
    <<"W","h","a","t","'","s"," ","t","h","e"," ","w","e","a","t","h","e","r","?">> }

(* --------------------------- external model ---------------------------- *)

\* raw failure messages an exception of the model call or of the parse carries
ErrMsgs == {"503 service unavailable", "Expecting value: line 1 column 2"}

NoSpanMsg == "'NoneType' object has no attribute 'group'"

\* What model.generate_content(prompt) does: it raises, or returns a text
\* that has no {...} span, a span that json.loads rejects, or a span that
\* parses to the object obj.
ReplyRaise(m) == [k |-> "raise", msg |-> m]
ReplyProse == [k |-> "prose"]
ReplyMalformed(m) == [k |-> "malformed", msg |-> m]
ReplyObject(o) == [k |-> "object", obj |-> o]

FailingReplies ==
  {ReplyRaise(m) : m \in ErrMsgs} \cup {ReplyProse} \cup {ReplyMalformed(m) : m \in ErrMsgs}

\* the body of the try blocks: generate_content, re.search(...).group(0),
\* json.loads; either the parsed object or the exception's message
ParseReply(reply) ==
  CASE reply.k = "raise" -> [ok |-> FALSE, error |-> reply.msg]
    [] reply.k = "prose" -> [ok |-> FALSE, error |-> NoSpanMsg]
    [] reply.k = "malformed" -> [ok |-> FALSE, error |-> reply.msg]
    [] reply.k = "object" -> [ok |-> TRUE, value |-> reply.obj]

(* ------------------------ determine_next_action ------------------------ *)

\* a loop that tries once more than range(2)
ClassifierAttemptsOneMore == 2 + 1

\* range(2)
ClassifierAttempts == 2

Envelope(a, r) == [k |-> "obj", action |-> a, response |-> r]

ClassifierFallback ==
  Envelope(JStr("error"),
           JStr("Sorry, I had trouble understanding that. Could you please rephrase?"))

ActionNames ==
  {"small_talk", "clarify", "answer_general", "reject", "error",
   "recommend", "analyze", "compare", "book_test_drive"}

EnvelopeActions == {JStr(a) : a \in ActionNames} \cup {Absent, JNull}
EnvelopeResponses == {Absent, JNull, JStr(""), JStr("Hello! How can I help?")}

ClassifierReplies ==
  FailingReplies \cup
  {ReplyObject(Envelope(a, r)) : a \in EnvelopeActions, r \in EnvelopeResponses}

\* one pass of the loop body: the returned object, or nothing (continue)
ClassifyOnce(reply) ==
  LET p == ParseReply(reply)
  IN IF p.ok THEN [returned |-> TRUE, value |-> p.value]
     ELSE [returned |-> FALSE]

(* ------------------------------ executors ------------------------------ *)

\* a parsed reply of an executor: any of the keys may be missing
EmptyResult ==
  [k |-> "obj", error |-> Absent, recommendations |-> Absent, comparison |-> Absent,
   model |-> Absent, overview |-> Absent, pros |-> Absent, cons |-> Absent,
   audience |-> Absent, price_estimate_usd |-> Absent]

\* what an executor hands back: a value, or an exception that leaves it
Returned(v) == [raised |-> FALSE, value |-> v]
Raised(m) == [raised |-> TRUE, error |-> m]

\* the executor's name once for each model.generate_content it performs
OneCall(name) == <<name>>

\* a recommender without the except clause: the exception leaves it
get_recommendations_propagating(reply) ==
  LET p == ParseReply(reply)
  IN IF p.ok THEN Returned(p.value) ELSE Raised(p.error)

get_recommendations_and_analysis(reply) ==
  LET p == ParseReply(reply)
  IN IF p.ok THEN Returned(p.value)
     ELSE Returned([EmptyResult EXCEPT !.error = JStr(p.error),
                                       !.recommendations = JList(<<>>)])

compare_cars_with_ai(reply) ==
  LET p == ParseReply(reply)
  IN IF p.ok THEN Returned(p.value)
     ELSE Returned([EmptyResult EXCEPT !.error = JStr(p.error),
                                       !.comparison = JList(<<>>)])

analyze_specific_car_model(reply) ==
  LET p == ParseReply(reply)
  IN IF p.ok THEN Returned(p.value)
     ELSE Returned([EmptyResult EXCEPT !.error = JStr(p.error)])

(* ------------------------- replies of the model ------------------------ *)

PriceRange(lo, hi, ty) == [k |-> "obj", min_price |-> lo, max_price |-> hi, type |-> ty]
EmptyPrice == PriceRange(Absent, Absent, Absent)
RecItem(mk, md, sm, pr) ==
  [k |-> "obj", make |-> mk, model |-> md, summary |-> sm, price_range |-> pr]
CmpItem(md, sm, st, wk) ==
  [k |-> "obj", model |-> md, summary |-> sm, strengths |-> st, weaknesses |-> wk]

Camry ==
  RecItem(JStr("Toyota"), JStr("Camry"), JStr("A reliable midsize sedan."),
          PriceRange(JInt(25000), JInt(35000), JStr("New")))

RecItems ==
  { Camry,
    RecItem(Absent, JStr("F-150"), Absent, Absent),
    RecItem(JStr("Ford"), Absent, JStr("The market leader."),
            PriceRange(JInt(0), JInt(0), Absent)),
    RecItem(JStr("Kia"), JStr("Rio"), JStr("Cheap to run."),
            PriceRange(JInt(9500), Absent, JStr("Used (3-5 years old)"))),
    RecItem(JStr("Kia"), JStr("Rio"), JStr("Cheap to run."),
            PriceRange(JInt(-1), JStr("12000"), JStr("Used"))),
    RecItem(JStr("Honda"), JStr("Civic"), JStr("Sporty handling."),
            PriceRange(JStr("22000"), JInt(1250000), JStr("New"))),
    RecItem(JStr("Honda"), JStr("Civic"), JStr("Sporty handling."),
            PriceRange(JInt(22000), JNull, JStr("New"))),
    RecItem(JStr("Honda"), JStr("Civic"), JNull, JNull),
    JStr("Toyota Camry") }

RecLists ==
  {JList(<<>>), JNull, JStr("none"), JInt(3)} \cup {JList(<<i>>) : i \in RecItems}
  \cup {JList(<<Camry, i>>) : i \in RecItems}

RecommenderReplies ==
  FailingReplies \cup {ReplyObject(EmptyResult)}
  \cup {ReplyObject([EmptyResult EXCEPT !.recommendations = l]) : l \in RecLists}

CivicCmp ==
  CmpItem(JStr("Honda Civic"), JStr("A great all-rounder."),
          JList(<<JStr("Fun to drive"), JStr("High resale value")>>),
          JList(<<JStr("Road noise")>>))

CmpItems ==
  { CivicCmp,
    CmpItem(JStr("Toyota Corolla"), Absent, Absent, JList(<<>>)),
    CmpItem(Absent, JStr("Comfortable."), JList(<<JStr("Reliable")>>), Absent),
    CmpItem(JNull, JStr("Comfortable."), JList(<<JStr("Reliable")>>), JNull),
    CmpItem(JStr("Toyota Corolla"), JStr("Comfortable."), JList(<<JInt(5)>>), JList(<<>>)),
    JStr("Honda Civic") }

CmpLists ==
  {JList(<<>>), JNull, JStr("none")} \cup {JList(<<i>>) : i \in CmpItems}
  \cup {JList(<<CivicCmp, i>>) : i \in CmpItems}

ComparatorReplies ==
  FailingReplies \cup {ReplyObject(EmptyResult)}
  \cup {ReplyObject([EmptyResult EXCEPT !.comparison = l]) : l \in CmpLists}

FullAnalysis ==
  [EmptyResult EXCEPT
     !.model = JStr("Ford F-150"),
     !.overview = JStr("The best-selling truck."),
     !.pros = JList(<<JStr("Towing capacity"), JStr("Many configurations")>>),
     !.cons = JList(<<JStr("Thirsty")>>),
     !.audience = JStr("Contractors and families."),
     !.price_estimate_usd = JStr("$35,000 - $60,000")]

AnalysisObjects ==
  { FullAnalysis,
    EmptyResult,
    [EmptyResult EXCEPT !.overview = JStr("The best-selling truck.")],
    [EmptyResult EXCEPT !.model = JStr("")],
    [EmptyResult EXCEPT !.model = JStr("Ford F-150")],
    [EmptyResult EXCEPT !.model = JInt(150), !.overview = JNull],
    [FullAnalysis EXCEPT !.pros = Absent, !.cons = Absent, !.audience = Absent,
                         !.price_estimate_usd = Absent],
    [FullAnalysis EXCEPT !.pros = JNull],
    [FullAnalysis EXCEPT !.cons = JInt(0)] }

AnalyzerReplies == FailingReplies \cup {ReplyObject(o) : o \in AnalysisObjects}

(* --------------------------- dispatch: texts --------------------------- *)
\* Pictographs of the source's literals are left out of the strings.

Ok(t) == [ok |-> TRUE, text |-> t]
Exc(e) == [ok |-> FALSE, exc |-> e]

CannedDefault == "I'm not sure how to respond. Please try rephrasing."
ElseDefault == "I encountered an issue. Please try again."
BeMoreSpecific ==
  "Sorry, I couldn't find good options with the provided details. Could you be more specific?"
AnalysisFailed == "Sorry, I couldn't analyze that model. Please be more specific."
NoModelFound == "I couldn't identify a specific car model to analyze. Please try again."
ComparisonFailed ==
  "Sorry, I couldn't generate a comparison. Please mention at least two models clearly."

\* the price line of one recommendation
PriceLine(r) ==
  LET price_info == Get(r.price_range, EmptyPrice)
  IN IF price_info.k # "obj" THEN Exc("AttributeError")
     ELSE LET min_p == Get(price_info.min_price, JInt(0))
              max_p == Get(price_info.max_price, JInt(0))
              type_p == Get(price_info.type, JStr("N/A"))
          IN IF min_p.k # "int" THEN Exc("TypeError")
             ELSE IF min_p.n > 0
             THEN IF max_p.k # "int" THEN Exc("TypeError")
                  ELSE IF max_p.n > 0
                  THEN Ok("- **Estimated Price**: $" \o FormatComma(min_p.n) \o " - $"
                          \o FormatComma(max_p.n) \o " (" \o PyStr(type_p) \o ")\n")
                  ELSE Ok("- **Estimated Price**: Not available\n")
             ELSE Ok("- **Estimated Price**: Not available\n")

\* the lines of one recommendation
RecBlock(r) ==
  IF r.k # "obj" THEN Exc("AttributeError")
  ELSE LET price == PriceLine(r)
       IN IF ~price.ok THEN price
          ELSE Ok("\n### " \o PyStr(GetNone(r.make)) \o " " \o PyStr(GetNone(r.model)) \o "\n"
                  \o "- **Summary**: " \o PyStr(Get(r.summary, JStr("N/A"))) \o "\n"
                  \o price.text)

RECURSIVE RecBlocks(_)
\* the loop over recs["recommendations"]
RecBlocks(items) ==
  IF items = <<>> THEN Ok("")
  ELSE LET first == RecBlock(Head(items))
       IN IF ~first.ok THEN first
          ELSE LET rest == RecBlocks(Tail(items))
               IN IF ~rest.ok THEN rest ELSE Ok(first.text \o rest.text)

\* a recommend branch that reports the executor's error field
FormatRecommendShowingError(recs) ==
  LET list == GetNone(recs.recommendations)
  IN IF recs.error # Absent THEN Ok("Error: " \o PyStr(recs.error))
     ELSE IF ~Truthy(list) THEN Ok(BeMoreSpecific)
     ELSE IF list.k # "list" THEN Exc(IF list.k = "int" THEN "TypeError" ELSE "AttributeError")
     ELSE LET blocks == RecBlocks(list.items)
          IN IF ~blocks.ok THEN blocks
             ELSE Ok("Based on your preferences, here are 3 solid options:\n" \o blocks.text)

\* the recommend branch after the executor returned
FormatRecommend(recs) ==
  LET list == GetNone(recs.recommendations)
  IN IF ~Truthy(list) THEN Ok(BeMoreSpecific)
     ELSE IF list.k # "list" THEN Exc(IF list.k = "int" THEN "TypeError" ELSE "AttributeError")
     ELSE LET blocks == RecBlocks(list.items)
          IN IF ~blocks.ok THEN blocks
             ELSE Ok("Based on your preferences, here are 3 solid options:\n" \o blocks.text)

RECURSIVE Bullets(_)
\* "- <item>\n" for each item of a list
Bullets(items) ==
  IF items = <<>> THEN "" ELSE "- " \o PyStr(Head(items)) \o "\n" \o Bullets(Tail(items))

\* the analyze branch after the executor returned
FormatAnalysis(analysis) ==
  IF ~Truthy(GetNone(analysis.model)) THEN Ok(AnalysisFailed)
  ELSE IF analysis.overview = Absent THEN Exc("KeyError")
  ELSE LET pros == Get(analysis.pros, JList(<<>>))
           cons == Get(analysis.cons, JList(<<>>))
       IN IF pros.k # "list" \/ cons.k # "list" THEN Exc("TypeError")
          ELSE Ok("### Analysis of the " \o PyStr(analysis.model) \o "\n"
                  \o "**Overview:** " \o PyStr(analysis.overview) \o "\n\n"
                  \o "**Pros:**\n" \o Bullets(pros.items)
                  \o "\n**Cons:**\n" \o Bullets(cons.items)
                  \o "\n**Ideal For:** " \o PyStr(Get(analysis.audience, JStr("N/A"))) \o "\n"
                  \o "**Estimated Price:** "
                  \o PyStr(Get(analysis.price_estimate_usd, JStr("N/A"))))

RECURSIVE CommaJoin(_)
\* ', '.join(list of str)
CommaJoin(items) ==
  IF items = <<>> THEN ""
  ELSE IF Len(items) = 1 THEN items[1].s
  ELSE items[1].s \o ", " \o CommaJoin(Tail(items))

\* ', '.join(value): only a list of strings joins
JoinLine(v) ==
  IF v.k = "list" /\ \A n \in 1..Len(v.items) : v.items[n].k = "str"
  THEN Ok(CommaJoin(v.items))
  ELSE Exc("TypeError")

\* the lines of one compared car
CmpBlock(car) ==
  IF car.k # "obj" THEN Exc("TypeError")
  ELSE IF car.model = Absent THEN Exc("KeyError")
  ELSE LET strengths == JoinLine(Get(car.strengths, JList(<<>>)))
           weaknesses == JoinLine(Get(car.weaknesses, JList(<<>>)))
       IN IF ~strengths.ok THEN strengths
          ELSE IF ~weaknesses.ok THEN weaknesses
          ELSE Ok("\n### " \o PyStr(car.model) \o "\n"
                  \o "- **Summary**: " \o PyStr(Get(car.summary, JStr("N/A"))) \o "\n"
                  \o "- **Strengths**: " \o strengths.text \o "\n"
                  \o "- **Weaknesses**: " \o weaknesses.text \o "\n")

RECURSIVE CmpBlocks(_)
\* the loop over result["comparison"]
CmpBlocks(items) ==
  IF items = <<>> THEN Ok("")
  ELSE LET first == CmpBlock(Head(items))
       IN IF ~first.ok THEN first
          ELSE LET rest == CmpBlocks(Tail(items))
               IN IF ~rest.ok THEN rest ELSE Ok(first.text \o rest.text)

\* a compare branch that tests for the key instead of for a non-empty list
FormatComparisonKeyTest(result) ==
  LET list == GetNone(result.comparison)
  IN IF list = JNull THEN Ok(ComparisonFailed)
     ELSE IF list.k # "list" THEN Exc("TypeError")
     ELSE LET blocks == CmpBlocks(list.items)
          IN IF ~blocks.ok THEN blocks
             ELSE Ok("Here's a comparison of your choices:\n" \o blocks.text)

\* the compare branch after the executor returned
FormatComparison(result) ==
  LET list == GetNone(result.comparison)
  IN IF ~Truthy(list) THEN Ok(ComparisonFailed)
     ELSE IF list.k # "list" THEN Exc("TypeError")
     ELSE LET blocks == CmpBlocks(list.items)
          IN IF ~blocks.ok THEN blocks
             ELSE Ok("Here's a comparison of your choices:\n" \o blocks.text)

RECURSIVE Serialize(_)
\* "\n".join(f"{msg['role']}: {msg['content']}" for msg in messages)
Serialize(messages) ==
  IF messages = <<>> THEN ""
  ELSE LET line == Head(messages).role \o ": " \o PyStr(Head(messages).content)
       IN IF Len(messages) = 1 THEN line ELSE line \o "\n" \o Serialize(Tail(messages))

VARIABLES
  log,              \* st.session_state.messages
  pc,               \* where the handler of the current turn is
  prompt,           \* the utterance of the current turn (characters)
  attempt,          \* loop counter of determine_next_action
  action_data,      \* the classifier's return value
  result,           \* recs / analysis / result: what the executor returned
  response_content, \* the response text of the turn
  calls,            \* callers of model.generate_content in this turn, in order
  invoked,          \* executors invoked in this turn, in order
  context,          \* the argument handed to the executor
  exec_reply,       \* what the model answered to the executor
  turns,            \* turns started in this session
  status,           \* the current turn: "none", "running", "ok", "crashed"
  logStart,         \* the log when the current turn began
  history,          \* gemini_history: what the classifier was handed
  class_reply,      \* what the model answered to the classifier's last call
  candidates        \* what extract_car_models returned in the analyze branch

vars ==
  <<log, pc, prompt, attempt, action_data, result, response_content, calls,
    invoked, context, exec_reply, turns, status, logStart, history, class_reply,
    candidates>>

Turn(role, content) == [role |-> role, content |-> content]

\* "user" if msg["role"] == "user" else "model"
GeminiRole(role) == IF role = "user" THEN "user" ELSE "model"

\* gemini_history: every turn of the log as a role and a one-element parts list
GeminiHistory(messages) ==
  [i \in 1..Len(messages) |->
     [role |-> GeminiRole(messages[i].role), parts |-> <<messages[i].content>>]]

Greeting ==
  Turn("assistant",
       JStr("Hello! I'm Autovisory. Ask me to recommend, compare, or analyze a car."))

Init ==
  /\ log = <<Greeting>>
  /\ pc = "idle"
  /\ prompt = <<>>
  /\ attempt = 0
  /\ action_data = Absent
  /\ result = Absent
  /\ response_content = JStr("")
  /\ calls = <<>>
  /\ invoked = <<>>
  /\ context = ""
  /\ exec_reply = Absent
  /\ turns = 0
  /\ status = "none"
  /\ logStart = <<Greeting>>
  /\ history = <<>>
  /\ class_reply = Absent
  /\ candidates = <<>>

\* an append that overwrites the last turn instead of growing the list
AppendTurnOverwriting(messages, turn) ==
  [messages EXCEPT ![Len(messages)] = turn]

\* messages.append(...)
AppendTurn(messages, turn) == Append(messages, turn)

\* st.chat_input returns an utterance; the user turn is appended and the
\* locals of the handler start afresh
ChatInput(u) ==
  /\ pc = "idle"
  /\ turns < MaxTurns
  /\ log' = AppendTurn(log, Turn("user", JStr(Join(u))))
  /\ prompt' = u
  /\ pc' = "classify"
  /\ attempt' = 0
  /\ action_data' = Absent
  /\ result' = Absent
  /\ response_content' = JStr("")
  /\ calls' = <<>>
  /\ invoked' = <<>>
  /\ context' = ""
  /\ exec_reply' = Absent
  /\ turns' = turns + 1
  /\ status' = "running"
  /\ logStart' = log
  /\ history' = GeminiHistory(log')
  /\ class_reply' = Absent
  /\ candidates' = <<>>

\* an iteration that keeps the parsed object but goes on to the next attempt
\* (the object is returned after the loop's last pass only)
ClassifyAttemptNoEarlyReturn(reply) ==
  /\ pc = "classify"
  /\ attempt < ClassifierAttempts
  /\ calls' = Append(calls, "determine_next_action")
  /\ class_reply' = reply
  /\ LET r == ClassifyOnce(reply)
     IN IF r.returned /\ attempt + 1 = ClassifierAttempts
        THEN /\ action_data' = r.value
             /\ pc' = "dispatch"
             /\ attempt' = attempt
        ELSE /\ attempt' = attempt + 1
             /\ action_data' = IF r.returned THEN r.value ELSE action_data
             /\ UNCHANGED pc
  /\ UNCHANGED <<log, prompt, result, response_content, invoked, context, exec_reply,
                 turns, status, logStart, history, candidates>>

\* one iteration of the loop of determine_next_action
ClassifyAttempt(reply) ==
  /\ pc = "classify"
  /\ attempt < ClassifierAttempts
  /\ calls' = Append(calls, "determine_next_action")
  /\ class_reply' = reply
  /\ LET r == ClassifyOnce(reply)
     IN IF r.returned
        THEN /\ action_data' = r.value
             /\ pc' = "dispatch"
             /\ attempt' = attempt
        ELSE /\ attempt' = attempt + 1
             /\ UNCHANGED <<action_data, pc>>
  /\ UNCHANGED <<log, prompt, result, response_content, invoked, context, exec_reply,
                 turns, status, logStart, history, candidates>>

\* the loop ran out: the fixed error envelope is returned
ClassifyExhausted ==
  /\ pc = "classify"
  /\ attempt >= ClassifierAttempts
  /\ action_data' = ClassifierFallback
  /\ pc' = "dispatch"
  /\ UNCHANGED <<log, prompt, attempt, result, response_content, calls, invoked,
                 context, exec_reply, turns, status, logStart, history, class_reply,
                 candidates>>

\* action_data.get("action", "error")
ActionOf(data) == Get(data.action, JStr("error"))

CannedActions == {JStr("reject"), JStr("clarify"), JStr("answer_general")}
ExecutorActions == {JStr("recommend"), JStr("analyze"), JStr("compare")}

\* a first branch that always answers with its own default
CannedResponseAlwaysDefault(data) == JStr(CannedDefault)

\* a first branch that answers with its default once the classifier retried
CannedResponseUnlessRetried(data) ==
  IF attempt > 0 THEN JStr(CannedDefault) ELSE Get(data.response, JStr(CannedDefault))

\* action_data.get("response", <the branch's default>) of the first branch
CannedResponse(data) == Get(data.response, JStr(CannedDefault))

\* a final else that always answers with its own default
ElseResponseAlwaysDefault(data) == JStr(ElseDefault)

\* action_data.get("response", <the branch's default>) of the final else
ElseResponse(data) == Get(data.response, JStr(ElseDefault))

\* action in ["reject", "clarify", "answer_general"]
DispatchCanned ==
  /\ pc = "dispatch"
  /\ ActionOf(action_data) \in CannedActions
  /\ response_content' = CannedResponse(action_data)
  /\ pc' = "append"
  /\ class_reply' = Absent
  /\ UNCHANGED <<log, prompt, attempt, action_data, result, calls, invoked, context,
                 exec_reply, turns, status, logStart, history, candidates>>

\* the final else: every other action value
DispatchElse ==
  /\ pc = "dispatch"
  /\ ActionOf(action_data) \notin CannedActions \cup ExecutorActions
  /\ response_content' = ElseResponse(action_data)
  /\ pc' = "append"
  /\ class_reply' = Absent
  /\ UNCHANGED <<log, prompt, attempt, action_data, result, calls, invoked, context,
                 exec_reply, turns, status, logStart, history, candidates>>

\* the executor name is called with arg, the model answers reply, and the
\* executor hands back out
RunExecutor(name, arg, reply, out) ==
  /\ invoked' = Append(invoked, name)
  /\ exec_reply' = reply
  /\ calls' = calls \o OneCall(name)
  /\ context' = arg
  /\ class_reply' = Absent
  /\ IF out.raised
     THEN /\ pc' = "idle"
          /\ status' = "crashed"
          /\ UNCHANGED result
     ELSE /\ pc' = "format"
          /\ status' = status
          /\ result' = out.value
  /\ UNCHANGED <<log, prompt, attempt, action_data, response_content, turns, logStart,
                 history>>

\* a recommend branch whose context was built before the user turn was appended
DispatchRecommendStaleContext(reply) ==
  /\ pc = "dispatch"
  /\ ActionOf(action_data) = JStr("recommend")
  /\ RunExecutor("get_recommendations_and_analysis", Serialize(logStart), reply,
                 get_recommendations_and_analysis(reply))
  /\ UNCHANGED candidates

\* action == "recommend": the context is the whole log
DispatchRecommend(reply) ==
  /\ pc = "dispatch"
  /\ ActionOf(action_data) = JStr("recommend")
  /\ RunExecutor("get_recommendations_and_analysis", Serialize(log), reply,
                 get_recommendations_and_analysis(reply))
  /\ UNCHANGED candidates

\* a compare branch that is entered for "recommend" as well (if instead of elif)
DispatchCompareAlsoRecommend(reply) ==
  /\ pc = "dispatch"
  /\ ActionOf(action_data) \in {JStr("compare"), JStr("recommend")}
  /\ RunExecutor("compare_cars_with_ai", Serialize(log), reply,
                 compare_cars_with_ai(reply))
  /\ UNCHANGED candidates

\* action == "compare": the context is the whole log
DispatchCompare(reply) ==
  /\ pc = "dispatch"
  /\ ActionOf(action_data) = JStr("compare")
  /\ RunExecutor("compare_cars_with_ai", Serialize(log), reply,
                 compare_cars_with_ai(reply))
  /\ UNCHANGED candidates

\* the last candidate instead of the first: candidates[-1] if candidates else ""
LastOrEmpty(found) == IF found # <<>> THEN found[Len(found)] ELSE ""

\* candidates[0] if candidates else ""
FirstOrEmpty(found) == IF found # <<>> THEN found[1] ELSE ""

\* the model name the analyze branch takes from the utterance
ModelName(text) == FirstOrEmpty(extract_car_models(text))

\* action == "analyze" with no candidate in the utterance
DispatchAnalyzeNone ==
  /\ pc = "dispatch"
  /\ ActionOf(action_data) = JStr("analyze")
  /\ candidates' = extract_car_models(prompt)
  /\ FirstOrEmpty(candidates') = ""
  /\ response_content' = JStr(NoModelFound)
  /\ pc' = "append"
  /\ class_reply' = Absent
  /\ UNCHANGED <<log, prompt, attempt, action_data, result, calls, invoked, context,
                 exec_reply, turns, status, logStart, history>>

\* action == "analyze" with a candidate: the analyzer gets the first one
DispatchAnalyze ==
  /\ pc = "dispatch"
  /\ ActionOf(action_data) = JStr("analyze")
  /\ candidates' = extract_car_models(prompt)
  /\ LET model_name == FirstOrEmpty(candidates')
     IN /\ model_name # ""
        /\ \E reply \in AnalyzerReplies :
             RunExecutor("analyze_specific_car_model", model_name, reply,
                         analyze_specific_car_model(reply))

\* the text built from the executor's result, by the branch of the action
FormatResult(action, res) ==
  CASE action = JStr("recommend") -> FormatRecommend(res)
    [] action = JStr("analyze") -> FormatAnalysis(res)
    [] action = JStr("compare") -> FormatComparison(res)

\* the formatting after the executor returned; an exception of the
\* formatting code leaves the handler before the assistant turn is appended
FormatResponse ==
  /\ pc = "format"
  /\ LET f == FormatResult(ActionOf(action_data), result)
     IN IF f.ok
        THEN /\ response_content' = JStr(f.text)
             /\ pc' = "append"
             /\ status' = status
        ELSE /\ pc' = "idle"
             /\ status' = "crashed"
             /\ UNCHANGED response_content
  /\ UNCHANGED <<log, prompt, attempt, action_data, result, calls, invoked, context,
                 exec_reply, turns, logStart, history, class_reply, candidates>>

\* st.markdown(response_content); messages.append(assistant turn)
AppendAssistant ==
  /\ pc = "append"
  /\ log' = AppendTurn(log, Turn("assistant", response_content))
  /\ pc' = "idle"
  /\ status' = "ok"
  /\ UNCHANGED <<prompt, attempt, action_data, result, response_content, calls,
                 invoked, context, exec_reply, turns, logStart, history, class_reply,
                 candidates>>

Next ==
  \/ \E u \in Utterances : ChatInput(u)
  \/ \E reply \in ClassifierReplies : ClassifyAttempt(reply)
  \/ ClassifyExhausted
  \/ DispatchCanned
  \/ DispatchElse
  \/ \E reply \in RecommenderReplies : DispatchRecommend(reply)
  \/ \E reply \in ComparatorReplies : DispatchCompare(reply)
  \/ DispatchAnalyzeNone
  \/ DispatchAnalyze
  \/ FormatResponse
  \/ AppendAssistant

Spec == Init /\ [][Next]_vars

(* ------------------------------ properties ----------------------------- *)

\* the candidates of every utterance a turn can begin with
CandidatesOf == [u \in Utterances |-> extract_car_models(u)]

IsPrefix(a, b) == Len(a) <= Len(b) /\ SubSeq(b, 1, Len(a)) = a

\* the handler is not running: the turn ended, one way or the other
TurnEnded == pc = "idle" /\ status \in {"ok", "crashed"}

\* every model call of the classifier so far failed
AllAttemptsFailed == attempt = Len(calls)

\* C1: when every reply to the classifier fails to yield a parseable object,
\* determine_next_action calls the model exactly 2 times, does not raise, and
\* returns action "error" with the fixed apology.
C1_ClassifierRetryBound ==
  /\ pc = "classify" => Len(calls) <= 2 /\ status = "running"
  /\ (pc = "dispatch" /\ AllAttemptsFailed) =>
       /\ calls = <<"determine_next_action", "determine_next_action">>
       /\ status = "running"
       /\ action_data =
            [k |-> "obj", action |-> JStr("error"),
             response |->
               JStr("Sorry, I had trouble understanding that. Could you please rephrase?")]

C1_Witness == pc = "dispatch" /\ AllAttemptsFailed /\ Len(calls) = 2

\* C2: the response text the dispatch block produces for a turn is a
\* non-empty text string, for every action and every reply of the model.
C2_ResponseNonEmptyText ==
  /\ pc = "append" => response_content.k = "str" /\ response_content.s # ""
  /\ status # "crashed"

\* C3: every turn grows the log by exactly two turns, the user turn with the
\* utterance and then the assistant turn with the response text; no turn ends
\* with only the user turn appended.
C3_TwoAppendsPerTurn ==
  TurnEnded =>
    log = logStart \o <<Turn("user", JStr(Join(prompt))),
                        Turn("assistant", response_content)>>

\* C4: the log starts as the single greeting turn and is append-only: at
\* every step the log before is a prefix of the log after.
C4_AppendOnly ==
  /\ log = << [role |-> "assistant",
               content |-> JStr("Hello! I'm Autovisory. Ask me to recommend, compare, or analyze a car.")] >>
  /\ [][IsPrefix(log, log')]_vars

C4_Witness == status = "ok" /\ Len(log) = Len(logStart) + 2 /\ IsPrefix(logStart, log)

\* the response text of the turn exists: it is about to be appended, or was
Responded == pc = "append" \/ (pc = "idle" /\ status = "ok")

ClassifierCallsOnly == \A n \in 1..Len(calls) : calls[n] = "determine_next_action"

VerbatimActions ==
  {JStr("small_talk"), JStr("clarify"), JStr("answer_general"), JStr("reject"),
   JStr("error")}

\* C5 as stated: for small_talk, clarify, answer_general, reject and error the
\* response text is exactly the response field of the classification result,
\* and no executor and no further model call is made in the turn.
C5_CannedVerbatim ==
  (Responded /\ ActionOf(action_data) \in VerbatimActions) =>
    /\ response_content = action_data.response
    /\ invoked = <<>>
    /\ ClassifierCallsOnly

\* C5 as amended: the response text is the response field when the result has
\* one; when it has none it is the fixed default of the branch taken ("I'm
\* not sure how to respond. Please try rephrasing." for reject, clarify and
\* answer_general, "I encountered an issue. Please try again." for small_talk
\* and error); no executor and no further model call is made in the turn.
C5_CannedVerbatimOrDefault ==
  (Responded /\ ActionOf(action_data) \in VerbatimActions) =>
    /\ response_content =
         IF action_data.response # Absent THEN action_data.response
         ELSE IF ActionOf(action_data) \in
                   {JStr("reject"), JStr("clarify"), JStr("answer_general")}
         THEN JStr("I'm not sure how to respond. Please try rephrasing.")
         ELSE JStr("I encountered an issue. Please try again.")
    /\ invoked = <<>>
    /\ ClassifierCallsOnly

C5_Witness ==
  /\ pc = "idle" /\ status = "ok"
  /\ action_data.action = JStr("clarify")
  /\ response_content = JStr("Hello! How can I help?")

\* C6: in a turn at most one executor is invoked, the one of the action:
\* recommend the recommender, compare the comparator, analyze the analyzer and
\* only when a candidate was extracted; no other action invokes an executor.
C6_OneMatchingExecutor ==
  invoked # <<>> =>
    \/ /\ ActionOf(action_data) = JStr("recommend")
       /\ invoked = <<"get_recommendations_and_analysis">>
    \/ /\ ActionOf(action_data) = JStr("compare")
       /\ invoked = <<"compare_cars_with_ai">>
    \/ /\ ActionOf(action_data) = JStr("analyze")
       /\ invoked = <<"analyze_specific_car_model">>
       /\ CandidatesOf[prompt] # <<>>

C6_Witness ==
  /\ pc = "idle" /\ status = "ok"
  /\ invoked = <<"analyze_specific_car_model">>

\* C7: an executor invocation makes exactly one model call, hands back a value
\* whatever the call or the parse did, and after a failure that value is an
\* empty recommendations list, an empty comparison list, or an error-carrying
\* value.
C7_ExecutorOneCallNoRaise ==
  /\ SelectSeq(calls, LAMBDA c : c # "determine_next_action") = invoked
  /\ invoked # <<>> => result # Absent
  /\ (invoked # <<>> /\ exec_reply \in FailingReplies) =>
       /\ result.error.k = "str"
       /\ invoked[1] = "get_recommendations_and_analysis" =>
            result.recommendations = JList(<<>>)
       /\ invoked[1] = "compare_cars_with_ai" => result.comparison = JList(<<>>)

C7_Witness ==
  /\ pc = "format"
  /\ invoked = <<"get_recommendations_and_analysis">>
  /\ exec_reply = ReplyProse

EmptyOrFailed(list) == exec_reply \in FailingReplies \/ list = JList(<<>>)

\* C8: when the executor of a recommend or compare action fails or returns an
\* empty list, the response is the action's fixed message, the same in both
\* cases, and the turn does not end in an error.
C8_EmptyResultFixedMessage ==
  /\ (invoked = <<"get_recommendations_and_analysis">> /\ pc # "format"
      /\ EmptyOrFailed(result.recommendations)) =>
       /\ status # "crashed"
       /\ response_content =
            JStr("Sorry, I couldn't find good options with the provided details. Could you be more specific?")
  /\ (invoked = <<"compare_cars_with_ai">> /\ pc # "format"
      /\ EmptyOrFailed(result.comparison)) =>
       /\ status # "crashed"
       /\ response_content =
            JStr("Sorry, I couldn't generate a comparison. Please mention at least two models clearly.")

C8_Witness ==
  /\ pc = "append"
  /\ invoked = <<"compare_cars_with_ai">>
  /\ result.comparison = JList(<<>>)
  /\ result.error = Absent

KnownActions ==
  {JStr("clarify"), JStr("recommend"), JStr("analyze"), JStr("compare"),
   JStr("reject"), JStr("small_talk"), JStr("answer_general"), JStr("error")}

\* C9 as stated: an envelope whose action is none of the known actions, or
\* that has no action key, is answered with the generic fixed apology whatever
\* else it carries.
C9_UnknownActionApology ==
  (Responded /\ action_data.action \notin KnownActions) =>
    response_content = JStr("I encountered an issue. Please try again.")

\* C9 as amended: such an envelope is answered with its own response field
\* when it carries one, and with the generic fixed apology when it carries
\* none.
C9_UnknownActionResponseOrApology ==
  (Responded /\ action_data.action \notin KnownActions) =>
    response_content =
      IF action_data.response # Absent THEN action_data.response
      ELSE JStr("I encountered an issue. Please try again.")

C9_Witness ==
  /\ pc = "append"
  /\ action_data.action = JStr("book_test_drive")
  /\ action_data.response = Absent

\* the executor called name, run on reply
ExecutorOn(name, reply) ==
  CASE name = "get_recommendations_and_analysis" -> get_recommendations_and_analysis(reply)
    [] name = "compare_cars_with_ai" -> compare_cars_with_ai(reply)
    [] name = "analyze_specific_car_model" -> analyze_specific_car_model(reply)

RawMessages == ErrMsgs \cup {NoSpanMsg}

\* C10: the response text and the log do not depend on the raw failure: a run
\* in which the failed call or parse carried any other error message gives
\* the same response text and the same log.
C10_FailureMessageNotShown ==
  /\ (pc # "classify" /\ attempt >= 1) =>
       action_data.response \notin {JStr(m) : m \in RawMessages}
  /\ (invoked # <<>> /\ exec_reply \in FailingReplies /\ pc # "format") =>
       /\ status # "crashed"
       /\ \A other \in FailingReplies :
            FormatResult(ActionOf(action_data), ExecutorOn(invoked[1], other).value)
              = Ok(response_content.s)
       /\ status = "ok" =>
            log = logStart \o <<Turn("user", JStr(Join(prompt))),
                                Turn("assistant", response_content)>>

C10_Witness ==
  /\ pc = "idle" /\ status = "ok"
  /\ invoked = <<"get_recommendations_and_analysis">>
  /\ exec_reply = ReplyRaise("503 service unavailable")

\* the analyze branch has applied the extractor to the utterance of the turn
Extracted ==
  /\ pc \in {"format", "append"} \/ TurnEnded
  /\ ActionOf(action_data) = JStr("analyze")

ConnectorWords == {"vs", "versus", "compare", "between", "and"}

StopWordTexts == {"Compare", "Between", "And", "The", "A"}

\* the word w stands in the text c, between spaces or the ends of c
HasWord(c, w) ==
  \E i \in 1..(Len(c) - Len(w) + 1) :
    /\ SubSeq(c, i, i + Len(w) - 1) = w
    /\ i = 1 \/ SubSeq(c, i - 1, i - 1) = " "
    /\ i + Len(w) - 1 = Len(c) \/ SubSeq(c, i + Len(w), i + Len(w)) = " "

\* C11: extract_car_models never returns a connector word (vs, versus,
\* compare, between, and) or a stop word (Compare, Between, And, The, A) as a
\* candidate or as a part of one; for "Compare Honda Civic vs Toyota Corolla"
\* it returns the ordered list "Honda Civic", "Toyota Corolla".
C11_NoConnectorOrStopWord ==
  Extracted =>
    /\ \A n \in 1..Len(candidates) :
         \A w \in ConnectorWords \cup StopWordTexts : ~HasWord(candidates[n], w)
    /\ Join(prompt) = "Compare Honda Civic vs Toyota Corolla" =>
         candidates = <<"Honda Civic", "Toyota Corolla">>

NoModelTexts == {"hi", "What's the weather?"}

\* C12: for a text that names no vehicle model extract_car_models returns the
\* empty list; for "What's the weather?" it is empty, the capitalized word at
\* the start of the sentence is not a candidate.
C12_NoModelNoCandidate ==
  (Extracted /\ Join(prompt) \in NoModelTexts) => candidates = <<>>

\* the recommend branch is rendering, or has rendered, the list of the result
Recommending ==
  /\ pc = "format" \/ Responded \/ TurnEnded
  /\ ActionOf(action_data) = JStr("recommend")
  /\ result # Absent
  /\ GetNone(result.recommendations).k = "list"

\* the items of the result that are objects
RecommendedItems ==
  LET list == result.recommendations.items
  IN {list[n] : n \in {m \in 1..Len(list) : list[m].k = "obj"}}

\* v is a positive integer
PositiveInt(v) == v.k = "int" /\ v.n > 0

\* both bounds of the item's price range are positive integers
BothPositive(r) ==
  /\ GetNone(r.price_range).k = "obj"
  /\ PositiveInt(GetNone(r.price_range.min_price))
  /\ PositiveInt(GetNone(r.price_range.max_price))

\* C13: for every recommendation item the price line is the formatted range
\* "$<min> - $<max> (<type>)" exactly when both min_price and max_price are
\* positive integers and "Not available" in every other case, as in
\* "$25,000 - $35,000 (New)" for 25000, 35000, "New"; rendering the line
\* never fails.
C13_PriceLine ==
  Recommending =>
    \A r \in RecommendedItems :
      /\ PriceLine(r).ok
      /\ BothPositive(r) <=>
           PriceLine(r).text # "- **Estimated Price**: Not available\n"
      /\ BothPositive(r) =>
           PriceLine(r).text =
             "- **Estimated Price**: $" \o FormatComma(r.price_range.min_price.n)
               \o " - $" \o FormatComma(r.price_range.max_price.n)
               \o " (" \o PyStr(Get(r.price_range.type, JStr("N/A"))) \o ")\n"
      /\ r = Camry =>
           PriceLine(r).text = "- **Estimated Price**: $25,000 - $35,000 (New)\n"

\* the dispatch block has chosen its branch for the envelope
Dispatched == pc \in {"format", "append"} \/ TurnEnded

\* the executors the dispatch block calls, as a function of the envelope and
\* the query
ExecutorsOf(data, query) ==
  CASE ActionOf(data) = JStr("recommend") -> <<"get_recommendations_and_analysis">>
    [] ActionOf(data) = JStr("compare") -> <<"compare_cars_with_ai">>
    [] ActionOf(data) = JStr("analyze") /\ CandidatesOf[query] # <<>> ->
         <<"analyze_specific_car_model">>
    [] OTHER -> <<>>

\* the argument of the executor call, as a function of the log, the envelope
\* and the query
ArgumentOf(messages, data, query) ==
  IF ActionOf(data) = JStr("analyze") THEN CandidatesOf[query][1]
  ELSE Serialize(messages)

\* the response of the dispatch block as a function of the envelope, the query
\* and the stub's answer to the executor; Absent when the formatting raises
ResponseOf(data, query, reply) ==
  IF ActionOf(data) \in CannedActions THEN Get(data.response, JStr(CannedDefault))
  ELSE IF ActionOf(data) \notin ExecutorActions THEN Get(data.response, JStr(ElseDefault))
  ELSE IF ExecutorsOf(data, query) = <<>> THEN JStr(NoModelFound)
  ELSE LET f == FormatResult(ActionOf(data),
                             ExecutorOn(ExecutorsOf(data, query)[1], reply).value)
       IN IF f.ok THEN JStr(f.text) ELSE Absent

\* C14: the dispatch is deterministic: the executor calls and the response
\* text of a turn are functions of the log, the classified action, the latest
\* query and the stub's answer alone, so two runs that agree on these agree
\* on the calls and on the response.
C14_DispatchDeterministic ==
  /\ Dispatched => invoked = ExecutorsOf(action_data, prompt)
  /\ (Dispatched /\ invoked # <<>>) =>
       context = ArgumentOf(logStart \o <<Turn("user", JStr(Join(prompt)))>>,
                            action_data, prompt)
  /\ Responded => response_content = ResponseOf(action_data, prompt, exec_reply)
  /\ (TurnEnded /\ status = "crashed") =>
       ResponseOf(action_data, prompt, exec_reply) = Absent

C14_Witness ==
  /\ pc = "idle" /\ status = "ok" /\ attempt = 1
  /\ invoked = <<"compare_cars_with_ai">>
  /\ exec_reply \notin FailingReplies
  /\ response_content = ResponseOf(action_data, prompt, exec_reply)
  /\ response_content # JStr(ComparisonFailed)

\* some item of the list is an object that has no model key or, for a
\* recommendation, no make key
ItemLacksKey(list, withMake) ==
  /\ list.k = "list"
  /\ \E n \in 1..Len(list.items) :
       /\ list.items[n].k = "obj"
       /\ list.items[n].model = Absent \/ (withMake /\ list.items[n].make = Absent)

\* the executor's result lacks a required key of its entity
LacksRequiredKey ==
  \/ /\ invoked = <<"get_recommendations_and_analysis">>
     /\ ItemLacksKey(GetNone(result.recommendations), TRUE)
  \/ /\ invoked = <<"compare_cars_with_ai">>
     /\ ItemLacksKey(GetNone(result.comparison), FALSE)
  \/ /\ invoked = <<"analyze_specific_car_model">>
     /\ Absent \in {result.overview, result.pros, result.cons, result.audience,
                    result.price_estimate_usd}

\* the fixed failure message of the action whose executor was invoked
FailureMessage ==
  CASE invoked = <<"get_recommendations_and_analysis">> ->
         "Sorry, I couldn't find good options with the provided details. Could you be more specific?"
    [] invoked = <<"compare_cars_with_ai">> ->
         "Sorry, I couldn't generate a comparison. Please mention at least two models clearly."
    [] invoked = <<"analyze_specific_car_model">> ->
         "Sorry, I couldn't analyze that model. Please be more specific."

\* C15: an executor result that lacks a required key of its entity (make or
\* model of a recommendation, model of a comparison item, overview, pros,
\* cons, audience or price estimate of an analysis) is treated as failed as a
\* whole: the response is the action's fixed failure message, nothing of the
\* result is rendered and the turn does not end in an error.
C15_MissingKeyFailsWhole ==
  ((Responded \/ TurnEnded) /\ invoked # <<>> /\ LacksRequiredKey) =>
    /\ status # "crashed"
    /\ response_content = JStr(FailureMessage)

\* C16: for an analyze action the extractor is applied to the latest query
\* only; with no candidate the response is the fixed "couldn't identify a
\* model" message and no model call beyond classification is made; otherwise
\* the Analyzer is called once with exactly the first candidate, and a result
\* without a model name yields the fixed analysis-failure message.
C16_AnalyzeFirstCandidate ==
  (Dispatched /\ ActionOf(action_data) = JStr("analyze")) =>
    /\ log[Len(logStart) + 1] = Turn("user", JStr(Join(prompt)))
    /\ candidates = CandidatesOf[prompt]
    /\ candidates = <<>> =>
         /\ response_content =
              JStr("I couldn't identify a specific car model to analyze. Please try again.")
         /\ invoked = <<>>
         /\ ClassifierCallsOnly
    /\ candidates # <<>> =>
         /\ invoked = <<"analyze_specific_car_model">>
         /\ SelectSeq(calls, LAMBDA c : c # "determine_next_action") =
              <<"analyze_specific_car_model">>
         /\ context = candidates[1]
    /\ (candidates # <<>> /\ pc # "format"
        /\ result.model \in {Absent, JNull, JStr("")}) =>
         response_content =
           JStr("Sorry, I couldn't analyze that model. Please be more specific.")

C16_Witness ==
  /\ pc = "idle" /\ status = "ok"
  /\ ActionOf(action_data) = JStr("analyze")
  /\ candidates = <<"Tell", "Ford F-150">>
  /\ context = "Tell"
  /\ result.model = Absent
  /\ response_content = JStr(AnalysisFailed)

\* the model calls determine_next_action made in this turn
ClassifierCalls == SelectSeq(calls, LAMBDA c : c = "determine_next_action")

\* C17: determine_next_action makes one or two model calls: a second call is
\* made only after a first attempt that gave no parseable object, the value
\* returned is the parsed object of the first attempt that succeeded, and a
\* successful attempt is never followed by another call.
C17_ClassifierCallsAndValue ==
  /\ pc = "classify" =>
       /\ Len(calls) = attempt
       /\ attempt >= 1 => class_reply \in FailingReplies
  /\ pc = "dispatch" =>
       /\ calls = ClassifierCalls
       /\ Len(calls) \in {1, 2}
       /\ class_reply \notin FailingReplies =>
            /\ class_reply.k = "object"
            /\ action_data = class_reply.obj
            /\ Len(calls) = attempt + 1
       /\ class_reply \in FailingReplies => Len(calls) = 2 /\ attempt = 2
  /\ (pc \notin {"classify", "dispatch"} /\ status # "none") =>
       Len(ClassifierCalls) = IF attempt = 0 THEN 1 ELSE 2

C17_Witness ==
  /\ pc = "dispatch"
  /\ attempt = 1
  /\ calls = <<"determine_next_action", "determine_next_action">>
  /\ class_reply = ReplyObject(Envelope(JStr("recommend"), Absent))
  /\ action_data = Envelope(JStr("recommend"), Absent)

\* the user turn of the current turn
UserTurn == Turn("user", JStr(Join(prompt)))

\* what holds of the log, the calls and the arguments while a turn runs and
\* after it
TurnOrder ==
  /\ status = "running" => log = logStart \o <<UserTurn>>
  /\ status = "ok" =>
       /\ log = logStart \o <<UserTurn, Turn("assistant", response_content)>>
       /\ pc = "idle"
  /\ status # "none" =>
       /\ calls = ClassifierCalls \o invoked
       /\ Len(ClassifierCalls) <= 2
       /\ Len(invoked) <= 1
       /\ Len(history) = Len(logStart) + 1
       /\ history[Len(history)] = [role |-> "user", parts |-> <<JStr(Join(prompt))>>]
       /\ \A n \in 1..Len(logStart) : history[n].parts = <<logStart[n].content>>
  /\ (status # "none" /\ pc # "classify") => Len(calls) \in 1..3
  /\ (invoked # <<>> /\ invoked[1] # "analyze_specific_car_model") =>
       context = Serialize(logStart) \o "\n" \o "user: " \o Join(prompt)

\* what holds of every step within a turn: model calls are made between the
\* two appends, the executor call after the classifier's calls
TurnStep ==
  /\ (calls' # calls /\ turns' = turns) =>
       /\ status = "running" /\ log = logStart \o <<UserTurn>> /\ log' = log
       /\ invoked = <<>>
       /\ invoked' # <<>> => pc = "dispatch" /\ Len(ClassifierCalls) \in {1, 2}
  /\ (log' # log /\ turns' = turns) =>
       /\ log' = Append(log, Turn("assistant", response_content))
       /\ calls' = calls
       /\ Len(calls) \in 1..3
       /\ pc' = "idle"
  /\ turns' # turns => log' = Append(log, UserTurn') /\ calls' = <<>>

\* C18: within every turn the user turn is appended first, then the
\* classifier's model calls are made, then at most one executor call, then
\* the assistant turn is appended; the history handed to the classifier and
\* the context handed to the Recommender or Comparator end with the current
\* user turn and hold no assistant turn of the same turn; a turn makes
\* between 1 and 3 model calls.
C18_TurnOrder == []TurnOrder /\ [][TurnStep]_vars

C18_Witness ==
  /\ status = "ok"
  /\ calls = <<"determine_next_action", "determine_next_action",
               "get_recommendations_and_analysis">>
  /\ context = Serialize(logStart) \o "\n" \o "user: " \o Join(prompt)
  /\ log = logStart \o <<UserTurn, Turn("assistant", response_content)>>

====
